---- MODULE Spec2Model ----
(***************************************************************************)
(* DevMind MCP server: the indexer (context/analyzer.py), the SQLite fact  *)
(* store (storage/db.py) and the tool dispatch (tools/registry.py).        *)
(*                                                                         *)
(* Text that the code searches (paths, function names, docstrings,         *)
(* dependency names) is a sequence of one-character strings, so that       *)
(* substring tests, SQL LIKE and pathlib's stem are computed, not assumed. *)
(***************************************************************************)
EXTENDS Integers, Sequences, FiniteSets, TLC

VARIABLES
    analyzer,   \* the ProjectAnalyzer object: files, functions, dependencies, todos
    runs,       \* history: ids of the trees index_project walked on this analyzer
    db,         \* the committed content of devmind.db: five tables
    txn,        \* the connection of a save_project_data call in progress
    saved,      \* history: outcome of the save_project_data calls
    reader,     \* a query handler in progress on its own connection
    reply,      \* what the last finished query handler returned
    lastOp,     \* name of the operation whose step was taken last
    loop        \* where run()'s serving loop is: "reading", "raised" or "ended"

vars == <<analyzer, runs, db, txn, saved, reader, reply, lastOp, loop>>

-----------------------------------------------------------------------------
(* Bounds of the model. *)

MaxIndexRuns == 2   \* index_project calls on one analyzer object

-----------------------------------------------------------------------------
(* Text *)

UpperChars == <<"A","B","C","D","E","F","G","H","I","J","K","L","M",
                "N","O","P","Q","R","S","T","U","V","W","X","Y","Z">>
LowerChars == <<"a","b","c","d","e","f","g","h","i","j","k","l","m",
                "n","o","p","q","r","s","t","u","v","w","x","y","z">>

\* str.lower() on one character; also SQLite's ASCII case folding in LIKE
LowerChar(c) ==
    IF \E i \in 1..26 : UpperChars[i] = c
    THEN LowerChars[CHOOSE i \in 1..26 : UpperChars[i] = c]
    ELSE c

\* str.lower()
Lower(s) == [i \in 1..Len(s) |-> LowerChar(s[i])]

\* Python's `sub in s` on strings
Contains(sub, s) ==
    \E i \in 0..(Len(s) - Len(sub)) : SubSeq(s, i + 1, i + Len(sub)) = sub

\* SQLite's LIKE without ESCAPE: % is any run of characters, _ is any one
\* character, every other character matches itself ignoring ASCII case.
RECURSIVE Like(_, _)
Like(text, pat) ==
    IF pat = <<>> THEN text = <<>>
    ELSE IF Head(pat) = "%"
         THEN \E k \in 0..Len(text) : Like(SubSeq(text, k + 1, Len(text)), Tail(pat))
    ELSE IF text = <<>> THEN FALSE
    ELSE IF Head(pat) = "_" THEN Like(Tail(text), Tail(pat))
    ELSE LowerChar(Head(pat)) = LowerChar(Head(text)) /\ Like(Tail(text), Tail(pat))

\* the f"%{x}%" parameter of the store's LIKE queries
Wrap(x) == <<"%">> \o x \o <<"%">>

\* index of the last occurrence of character c in s, 0 when there is none (str.rfind + 1)
RFind(s, c) ==
    IF \E i \in 1..Len(s) : s[i] = c
    THEN CHOOSE i \in 1..Len(s) : s[i] = c /\ \A j \in (i + 1)..Len(s) : s[j] # c
    ELSE 0

\* pathlib: Path(p).name, the final path component
PathName(p) == SubSeq(p, RFind(p, "/") + 1, Len(p))

\* pathlib: Path(p).suffix, the last dot-suffix of the name ('' for ".py" or "x.")
PathSuffix(p) ==
    LET n == PathName(p)
        i == RFind(n, ".")
    IN  IF 1 < i /\ i < Len(n) THEN SubSeq(n, i, Len(n)) ELSE <<>>

\* pathlib: Path(p).stem, the name without its suffix
PathStem(p) ==
    LET n == PathName(p)
        i == RFind(n, ".")
    IN  IF 1 < i /\ i < Len(n) THEN SubSeq(n, 1, i - 1) ELSE n

\* json.dumps / json.loads of a value: the text is kept apart from the value
JsonDumps(v) == [json |-> v]
JsonLoads(t) == t.json

-----------------------------------------------------------------------------
(* The source files the indexer may meet. *)

MainPy    == <<"m","a","i","n",".","p","y">>
UtilsPy   == <<"u","t","i","l","s",".","p","y">>
UtilsCap  == <<"U","t","i","l","s",".","p","y">>
EnvPy     == <<"e","n","v","/","e",".","p","y">>
EnvironPy == <<"e","n","v","i","r","o","n",".","p","y">>

sMain  == <<"m","a","i","n">>
sUtils == <<"u","t","i","l","s">>
sOs    == <<"o","s">>
sParse == <<"P","a","r","s","e">>
sLoad  == <<"l","o","a","d">>
sAxb   == <<"a","x","b">>
sE     == <<"e">>
sG     == <<"g">>
sDocParses == <<"p","a","r","s","e","s"," ","i","t">>

\* what rglob("*.py") yields, in the order it yields it
TreeOrder == <<MainPy, UtilsPy, UtilsCap, EnvPy, EnvironPy>>

\* content of each file: its size, its lines, the defs, imports and markers in it
Content(p) ==
    CASE p = MainPy ->
           [size |-> 30, lines |-> 6,
            defs |-> << [name |-> sParse, line_start |-> 2, line_end |-> 3,
                         args |-> <<"text">>, docstring |-> <<>>] >>,
            imports |-> {sUtils, sOs},
            markers |-> << [type |-> "TODO", message |-> "fix", line |-> 4] >>]
      [] p = UtilsPy ->
           [size |-> 20, lines |-> 4,
            defs |-> << [name |-> sLoad, line_start |-> 1, line_end |-> 3,
                         args |-> <<>>, docstring |-> sDocParses] >>,
            imports |-> {},
            markers |-> << [type |-> "FIXME", message |-> "slow", line |-> 4] >>]
      [] p = UtilsCap ->
           [size |-> 10, lines |-> 2,
            defs |-> << [name |-> sLoad, line_start |-> 1, line_end |-> 1,
                         args |-> <<>>, docstring |-> <<>>],
                        [name |-> sAxb, line_start |-> 2, line_end |-> 2,
                         args |-> <<"a">>, docstring |-> <<>>] >>,
            imports |-> {sMain},
            markers |-> << [type |-> "TODO", message |-> "more", line |-> 2] >>]
      [] p = EnvPy ->
           [size |-> 5, lines |-> 1,
            defs |-> << [name |-> sE, line_start |-> 1, line_end |-> 1,
                         args |-> <<>>, docstring |-> <<>>] >>,
            imports |-> {sOs},
            markers |-> << >>]
      [] OTHER ->
           [size |-> 8, lines |-> 3,
            defs |-> << [name |-> sG, line_start |-> 2, line_end |-> 2,
                         args |-> <<>>, docstring |-> <<>>] >>,
            imports |-> {sOs},
            markers |-> << [type |-> "TODO", message |-> "x", line |-> 3] >>]

\* A tree gives each file under the root one of: "absent", "ok" (readable and
\* parsable), "unparsable" (read succeeds, ast.parse raises), "unreadable"
\* (open or read raises).
Tree(m, u, c, e, v) ==
    [p \in {MainPy, UtilsPy, UtilsCap, EnvPy, EnvironPy} |->
        CASE p = MainPy -> m [] p = UtilsPy -> u [] p = UtilsCap -> c
          [] p = EnvPy -> e [] OTHER -> v]

Trees ==
    << Tree("ok", "ok", "absent", "absent", "absent"),
       Tree("absent", "absent", "ok", "absent", "ok"),
       Tree("unparsable", "unreadable", "ok", "ok", "absent"),
       Tree("absent", "absent", "absent", "ok", "absent"),
       Tree("ok", "ok", "ok", "absent", "absent") >>

TreeIds == 1..Len(Trees)

-----------------------------------------------------------------------------
(* context/analyzer.py *)

\* ProjectAnalyzer.__init__
NewAnalyzer ==
    [files |-> <<>>, functions |-> <<>>, dependencies |-> <<>>, todos |-> <<>>]

IgnorePatterns ==
    { <<"_","_","p","y","c","a","c","h","e","_","_">>,
      <<".","g","i","t">>,
      <<"n","o","d","e","_","m","o","d","u","l","e","s">>,
      <<".","v","e","n","v">>,
      <<"v","e","n","v">>,
      <<"e","n","v">>,
      <<".","e","n","v">> }

\* ProjectAnalyzer._should_ignore
ShouldIgnore(path) == \E pattern \in IgnorePatterns : Contains(pattern, path)

\* the order in which a set of dependency names is iterated
DepOrder == <<sMain, sOs, sUtils>>
DepList(S) == SelectSeq(DepOrder, LAMBDA d : d \in S)

\* self.dependencies[str(file_path)] = deps: the dict as a sequence of
\* (file, deps) items in insertion order, an existing key keeping its place
DictSet(dict, key, val) ==
    IF \E i \in 1..Len(dict) : dict[i].file = key
    THEN [i \in 1..Len(dict) |->
             IF dict[i].file = key THEN [file |-> key, deps |-> val] ELSE dict[i]]
    ELSE Append(dict, [file |-> key, deps |-> val])

\* ProjectAnalyzer._extract_functions
ExtractFunctions(path) ==
    LET defs == Content(path).defs
    IN  [i \in 1..Len(defs) |->
            [name |-> defs[i].name, file |-> path,
             line_start |-> defs[i].line_start, line_end |-> defs[i].line_end,
             args |-> defs[i].args, docstring |-> defs[i].docstring]]

\* ProjectAnalyzer._extract_todos
ExtractTodos(path) ==
    LET ms == Content(path).markers
    IN  [i \in 1..Len(ms) |->
            [type |-> ms[i].type, message |-> ms[i].message,
             file |-> path, line |-> ms[i].line]]

\* ProjectAnalyzer._extract_dependencies
ExtractDependencies(an, path) ==
    LET deps == Content(path).imports
    IN  IF deps # {} THEN DictSet(an.dependencies, path, deps) ELSE an.dependencies

\* the file_info dict of _analyze_file
FileInfo(path) ==
    [path |-> path, name |-> PathName(path), extension |-> PathSuffix(path),
     size |-> Content(path).size, lines |-> Content(path).lines]

\* ProjectAnalyzer._analyze_file: the file record is appended before the parse;
\* an exception anywhere ends the analysis of this file only
AnalyzeFile(an, path, status) ==
    IF status = "unreadable" THEN an
    ELSE LET withFile == [an EXCEPT !.files = Append(@, FileInfo(path))]
         IN  IF status = "unparsable" THEN withFile
             ELSE [withFile EXCEPT
                     !.functions = @ \o ExtractFunctions(path),
                     !.dependencies = ExtractDependencies(an, path),
                     !.todos = @ \o ExtractTodos(path)]

\* ProjectAnalyzer.index_project: the loop over rglob, from position i on
RECURSIVE IndexFrom(_, _, _)
IndexFrom(an, tree, i) ==
    IF i > Len(TreeOrder) THEN an
    ELSE LET path == TreeOrder[i]
         IN  IF tree[path] # "absent" /\ ~ShouldIgnore(path)
             THEN IndexFrom(AnalyzeFile(an, path, tree[path]), tree, i + 1)
             ELSE IndexFrom(an, tree, i + 1)

IndexProject(an, tree) == IndexFrom(an, tree, 1)

\* ProjectAnalyzer.get_data
GetData(an) ==
    [files |-> an.files,
     functions |-> an.functions,
     dependencies |-> [i \in 1..Len(an.dependencies) |->
                          [file |-> an.dependencies[i].file,
                           deps |-> DepList(an.dependencies[i].deps)]],
     todos |-> an.todos]

-----------------------------------------------------------------------------
(* storage/db.py: the tables and save_project_data *)

\* Database._init_db on a new file: five empty tables
EmptyDb ==
    [files |-> <<>>, functions |-> <<>>, dependencies |-> <<>>, todos |-> <<>>,
     commits |-> <<>>]

\* the four tables save_project_data writes
Facts(d) ==
    [files |-> d.files, functions |-> d.functions,
     dependencies |-> d.dependencies, todos |-> d.todos]

\* the INSERT statements of the dependencies loop: one per (file, dep), in dict order
RECURSIVE DepInserts(_, _)
DepInserts(items, i) ==
    IF i > Len(items) THEN <<>>
    ELSE [j \in 1..Len(items[i].deps) |->
             [op |-> "insert", table |-> "dependencies",
              row |-> [file |-> items[i].file, dependency |-> items[i].deps[j]]]]
         \o DepInserts(items, i + 1)

\* save_project_data: the statements it executes on its connection, in order
Statements(data) ==
    << [op |-> "delete", table |-> "files", row |-> <<>>],
       [op |-> "delete", table |-> "functions", row |-> <<>>],
       [op |-> "delete", table |-> "dependencies", row |-> <<>>],
       [op |-> "delete", table |-> "todos", row |-> <<>>] >>
    \o [i \in 1..Len(data.files) |->
           [op |-> "insert", table |-> "files", row |-> data.files[i]]]
    \o [i \in 1..Len(data.functions) |->
           [op |-> "insert", table |-> "functions", row |-> data.functions[i]]]
    \o DepInserts(data.dependencies, 1)
    \o [i \in 1..Len(data.todos) |->
           [op |-> "insert", table |-> "todos", row |-> data.todos[i]]]

\* the rowid SQLite gives a new row of a table with an INTEGER PRIMARY KEY
NextId(table) ==
    IF table = <<>> THEN 1
    ELSE 1 + (CHOOSE m \in {table[i].id : i \in 1..Len(table)} :
                 \A i \in 1..Len(table) : table[i].id <= m)

\* mutant: the files table declared without its PRIMARY KEY
ConflictsWithoutFilesKey(t, stmt) ==
    /\ stmt.op = "insert"
    /\ stmt.table = "dependencies"
    /\ \E i \in 1..Len(t.dependencies) :
          /\ t.dependencies[i].file = stmt.row.file
          /\ t.dependencies[i].dependency = stmt.row.dependency

\* whether an INSERT violates the table's PRIMARY KEY (sqlite3.IntegrityError)
Conflicts(t, stmt) ==
    /\ stmt.op = "insert"
    /\ \/ /\ stmt.table = "files"
          /\ \E i \in 1..Len(t.files) : t.files[i].path = stmt.row.path
       \/ /\ stmt.table = "dependencies"
          /\ \E i \in 1..Len(t.dependencies) :
                /\ t.dependencies[i].file = stmt.row.file
                /\ t.dependencies[i].dependency = stmt.row.dependency

\* the rows an INSERT adds, and the rows a DELETE leaves (none)
Inserted(t, stmt) ==
    CASE stmt.table = "files" ->
           [t EXCEPT !.files = Append(@,
               [path |-> stmt.row.path, name |-> stmt.row.name,
                extension |-> stmt.row.extension, size |-> stmt.row.size,
                lines |-> stmt.row.lines, data |-> JsonDumps(stmt.row)])]
      [] stmt.table = "functions" ->
           [t EXCEPT !.functions = Append(@,
               [id |-> NextId(t.functions), name |-> stmt.row.name,
                file |-> stmt.row.file, line_start |-> stmt.row.line_start,
                line_end |-> stmt.row.line_end,
                args |-> JsonDumps(stmt.row.args),
                docstring |-> stmt.row.docstring])]
      [] stmt.table = "dependencies" ->
           [t EXCEPT !.dependencies = Append(@, stmt.row)]
      [] OTHER ->
           [t EXCEPT !.todos = Append(@,
               [id |-> NextId(t.todos), type |-> stmt.row.type,
                message |-> stmt.row.message, file |-> stmt.row.file,
                line |-> stmt.row.line])]

\* mutant: save_project_data without its DELETE FROM functions
ExecuteKeepingFunctions(t, stmt) ==
    IF stmt.op = "delete"
    THEN CASE stmt.table = "files" -> [t EXCEPT !.files = <<>>]
           [] stmt.table = "functions" -> t
           [] stmt.table = "dependencies" -> [t EXCEPT !.dependencies = <<>>]
           [] OTHER -> [t EXCEPT !.todos = <<>>]
    ELSE Inserted(t, stmt)

\* the effect of one statement that does not raise on the connection's view
Execute(t, stmt) ==
    IF stmt.op = "delete"
    THEN CASE stmt.table = "files" -> [t EXCEPT !.files = <<>>]
           [] stmt.table = "functions" -> [t EXCEPT !.functions = <<>>]
           [] stmt.table = "dependencies" -> [t EXCEPT !.dependencies = <<>>]
           [] OTHER -> [t EXCEPT !.todos = <<>>]
    ELSE Inserted(t, stmt)

\* all of Statements(data) executed from position k on, none raising
RECURSIVE ExecuteAll(_, _, _)
ExecuteAll(t, stmts, k) ==
    IF k > Len(stmts) THEN t ELSE ExecuteAll(Execute(t, stmts[k]), stmts, k + 1)

\* the snapshot a save of this fact set commits when no statement raises
Snapshot(data) == ExecuteAll(Facts(EmptyDb), Statements(data), 1)

-----------------------------------------------------------------------------
(* storage/db.py: the queries, each SELECT a function of the tables it reads *)

RECURSIVE SumOf(_)
SumOf(values) ==
    IF values = <<>> THEN 0 ELSE Head(values) + SumOf(Tail(values))

\* SQL SUM over a column's values: NULL over no rows
SqlSum(values) ==
    IF values = <<>> THEN [null |-> TRUE, n |-> 0] ELSE [null |-> FALSE, n |-> SumOf(values)]

\* Python's `x or 0` on a fetched aggregate
OrZero(x) == IF x.null THEN 0 ELSE x.n

\* mutant: the third column of the statement summing size again
SelectFileStatsSummingSizeTwice(t) ==
    [file_count |-> Len(t.files),
     total_size |-> SqlSum([i \in 1..Len(t.files) |-> t.files[i].size]),
     total_lines |-> SqlSum([i \in 1..Len(t.files) |-> t.files[i].size])]

\* SELECT COUNT(*), SUM(size), SUM(lines) FROM files
SelectFileStats(t) ==
    [file_count |-> Len(t.files),
     total_size |-> SqlSum([i \in 1..Len(t.files) |-> t.files[i].size]),
     total_lines |-> SqlSum([i \in 1..Len(t.files) |-> t.files[i].lines])]

\* SELECT COUNT(*) FROM functions
SelectFunctionCount(t) == Len(t.functions)

\* dict(SELECT type, COUNT(*) FROM todos GROUP BY type)
SelectTodoStats(t) ==
    [ty \in {t.todos[i].type : i \in 1..Len(t.todos)} |->
        Cardinality({i \in 1..Len(t.todos) : t.todos[i].type = ty})]

\* the dict get_project_overview returns from the three fetched results
OverviewDict(fileStats, funcCount, todoStats) ==
    [file_count |-> fileStats.file_count,
     total_size |-> OrZero(fileStats.total_size),
     total_lines |-> OrZero(fileStats.total_lines),
     function_count |-> funcCount,
     todos |-> todoStats]

\* Database.get_project_overview when all three statements read the same tables
GetProjectOverview(t) ==
    OverviewDict(SelectFileStats(t), SelectFunctionCount(t), SelectTodoStats(t))

\* the WHERE clause of Database.search_functions
SearchMatches(row, query) ==
    Like(row.name, Wrap(query)) \/ Like(row.docstring, Wrap(query))

\* Database.search_functions: the matching rows, in table order, as dicts
SearchFunctions(t, query) ==
    LET rows == SelectSeq(t.functions, LAMBDA r : SearchMatches(r, query))
    IN  [i \in 1..Len(rows) |->
            [name |-> rows[i].name, file |-> rows[i].file,
             line |-> rows[i].line_start, docstring |-> rows[i].docstring]]

\* mutant: the name compared with LIKE, or under COLLATE NOCASE
NameEqualsIgnoringCase(row, func_name) == Lower(row.name) = Lower(func_name)

\* the WHERE clause of Database.get_function_context: = on TEXT is exact
NameEquals(row, func_name) == row.name = func_name

\* Database.get_function_context: the first row of that name as a dict; a dict
\* is a sequence of at most one record here, the empty dict {} being <<>>
GetFunctionContext(t, func_name) ==
    LET rows == SelectSeq(t.functions, LAMBDA r : NameEquals(r, func_name))
    IN  IF rows = <<>> THEN <<>>
        ELSE << [name |-> rows[1].name, file |-> rows[1].file,
                 line_start |-> rows[1].line_start, line_end |-> rows[1].line_end,
                 args |-> JsonLoads(rows[1].args),
                 docstring |-> rows[1].docstring] >>

\* first SELECT of find_related_files ("files that import from this file"):
\* paths of files joined to a dependency row whose name is LIKE %stem%
SelectImporters(t, file_path) ==
    {t.files[i].path : i \in
        {i \in 1..Len(t.files) :
            \E j \in 1..Len(t.dependencies) :
                /\ t.dependencies[j].file = t.files[i].path
                /\ Like(t.dependencies[j].dependency, Wrap(PathStem(file_path)))}}

\* second SELECT of find_related_files ("files that this file imports"):
\* the dependency column of the rows of this file
SelectImported(t, file_path) ==
    {t.dependencies[j].dependency : j \in
        {j \in 1..Len(t.dependencies) : t.dependencies[j].file = file_path}}

\* the order in which list(set(...)) lists the strings of a set
ListOrder == <<MainPy, UtilsPy, UtilsCap, EnvPy, EnvironPy, sMain, sOs, sUtils>>
ListOfSet(S) == SelectSeq(ListOrder, LAMBDA x : x \in S)

\* the value find_related_files returns from its two fetched results
RelatedList(related, imported) == ListOfSet(related \cup imported)

\* Database.find_related_files when both statements read the same tables
FindRelatedFiles(t, file_path) ==
    RelatedList(SelectImporters(t, file_path), SelectImported(t, file_path))

\* the row INSERT OR REPLACE leaves in commits: the old row of that hash goes
Upsert(commits, c) ==
    Append(SelectSeq(commits, LAMBDA r : r.hash # c.hash),
           [hash |-> c.hash, message |-> c.message, author |-> c.author,
            date |-> c.date, files_changed |-> JsonDumps(c.files_changed)])

\* Database.save_git_data: the loop of upserts
RECURSIVE SaveGit(_, _)
SaveGit(commits, batch) ==
    IF batch = <<>> THEN commits ELSE SaveGit(Upsert(commits, Head(batch)), Tail(batch))

\* ORDER BY date DESC
RECURSIVE ByDateDesc(_)
ByDateDesc(rows) ==
    IF rows = <<>> THEN <<>>
    ELSE LET m == CHOOSE i \in 1..Len(rows) :
                     \A j \in 1..Len(rows) :
                        rows[j].date < rows[i].date \/ (rows[j].date = rows[i].date /\ i <= j)
         IN  <<rows[m]>> \o ByDateDesc(SubSeq(rows, 1, m - 1) \o SubSeq(rows, m + 1, Len(rows)))

\* Database.get_recent_commits: LIMIT with a negative limit is no limit
GetRecentCommits(commits, limit) ==
    LET rows == ByDateDesc(commits)
        kept == IF limit < 0 \/ limit > Len(rows) THEN rows ELSE SubSeq(rows, 1, limit)
    IN  [i \in 1..Len(kept) |->
            [hash |-> kept[i].hash, message |-> kept[i].message,
             author |-> kept[i].author, date |-> kept[i].date,
             files_changed |-> JsonLoads(kept[i].files_changed)]]

-----------------------------------------------------------------------------
NoTxn == [active |-> FALSE, work |-> Facts(EmptyDb), stmts |-> <<>>, k |-> 0,
          before |-> Facts(EmptyDb), data |-> GetData(NewAnalyzer)]
NoSave == [outcome |-> "none", inserted |-> FALSE, data |-> GetData(NewAnalyzer),
           replaced |-> FALSE, prevPaths |-> {}]
NoReader == [op |-> "none", arg |-> <<>>, pc |-> "idle", acc |-> <<>>,
             first |-> Facts(EmptyDb), mixed |-> FALSE]
NoReply == [op |-> "none", arg |-> <<>>, value |-> <<>>, parts |-> <<>>,
            first |-> Facts(EmptyDb), last |-> Facts(EmptyDb), mixed |-> FALSE]

\* the paths of a sequence of file records or rows
Paths(files) == {files[i].path : i \in 1..Len(files)}

\* what the end of a save call records: its outcome, whether it had executed
\* an INSERT and, at a commit, the fact set committed, the paths of the
\* snapshot it replaced, and whether it replaced a snapshot by one of other files
Ended(outcome) ==
    IF outcome = "ok"
    THEN [outcome |-> outcome, inserted |-> txn.k > 4, data |-> txn.data,
          replaced |-> /\ txn.before.files # <<>>
                       /\ txn.data.files # <<>>
                       /\ Paths(txn.before.files) \cap Paths(txn.data.files) = {},
          prevPaths |-> Paths(txn.before.files)]
    ELSE [saved EXCEPT !.outcome = outcome, !.inserted = txn.k > 4]

\* the index runs of this analyzer, the last one marked with a save's outcome
Marked(outcome) ==
    IF runs = <<>> THEN runs
    ELSE [runs EXCEPT ![Len(runs)] = [tree |-> @.tree, save |-> outcome]]

-----------------------------------------------------------------------------
(* The indexing side: a server process constructs an analyzer, indexes, saves. *)

Init ==
    /\ analyzer = NewAnalyzer
    /\ runs = <<>>
    /\ db = EmptyDb
    /\ txn = NoTxn
    /\ saved = NoSave
    /\ reader = NoReader
    /\ reply = NoReply
    /\ lastOp = "init"
    /\ loop = "reading"

\* DevMindMCPServer.__init__: a new ProjectAnalyzer; the database file stays
Construct ==
    /\ ~txn.active
    /\ runs # <<>>
    /\ analyzer' = NewAnalyzer
    /\ runs' = <<>>
    /\ lastOp' = "construct"
    /\ UNCHANGED <<db, txn, saved, reader, reply, loop>>

\* analyzer.index_project(root) on the tree found under the root
Index(t) ==
    /\ ~txn.active
    /\ Len(runs) < MaxIndexRuns
    /\ analyzer' = IndexProject(analyzer, Trees[t])
    /\ runs' = Append(runs, [tree |-> t, save |-> "none"])
    /\ lastOp' = "index_project"
    /\ UNCHANGED <<db, txn, saved, reader, reply, loop>>

\* db.save_project_data(analyzer.get_data()), of a new analyzer or once after
\* an index run: the connection is opened; the first DELETE will begin its
\* transaction on the committed tables
SaveBegin ==
    /\ ~txn.active
    /\ IF runs = <<>> THEN TRUE ELSE runs[Len(runs)].save = "none"
    /\ txn' = [active |-> TRUE, work |-> Facts(db),
               stmts |-> Statements(GetData(analyzer)), k |-> 0,
               before |-> Facts(db), data |-> GetData(analyzer)]
    /\ lastOp' = "save_project_data"
    /\ UNCHANGED <<analyzer, runs, db, saved, reader, reply, loop>>

\* mutant: each statement committed as it ran, so a rollback undoes nothing
RolledBackNothing == Facts(txn.work) @@ [commits |-> db.commits]

\* the committed tables after the connection's context manager rolled back
RolledBack == db

\* the committed tables after the connection's context manager committed
Committed == Facts(txn.work) @@ [commits |-> db.commits]

\* the with block is left by an exception: conn.rollback()
Abort(outcome) ==
    /\ db' = RolledBack
    /\ txn' = NoTxn
    /\ saved' = Ended(outcome)
    /\ runs' = Marked(outcome)
    /\ lastOp' = "save_project_data"
    /\ UNCHANGED <<analyzer, reader, reply, loop>>

\* the next statement of save_project_data; an INSERT that violates a
\* PRIMARY KEY raises sqlite3.IntegrityError out of the with block
SaveStep ==
    /\ txn.active
    /\ txn.k < Len(txn.stmts)
    /\ LET stmt == txn.stmts[txn.k + 1]
       IN  IF Conflicts(txn.work, stmt)
           THEN Abort("integrity")
           ELSE /\ txn' = [txn EXCEPT !.work = Execute(@, stmt), !.k = @ + 1]
                /\ lastOp' = "save_project_data"
                /\ UNCHANGED <<analyzer, runs, db, saved, reader, reply, loop>>

\* any other failure inside the with block (the storage fails, the process dies)
SaveFail ==
    /\ txn.active
    /\ Abort("error")

\* the with block is left normally: conn.commit()
SaveCommit ==
    /\ txn.active
    /\ txn.k = Len(txn.stmts)
    /\ db' = Committed
    /\ txn' = NoTxn
    /\ saved' = Ended("ok")
    /\ runs' = Marked("ok")
    /\ lastOp' = "save_project_data"
    /\ UNCHANGED <<analyzer, reader, reply, loop>>

Next ==
    \/ Construct
    \/ \E t \in TreeIds : Index(t)
    \/ SaveBegin
    \/ SaveStep
    \/ SaveFail
    \/ SaveCommit

Spec == Init /\ [][Next]_vars

-----------------------------------------------------------------------------
(* Inputs the properties quantify over. *)

SearchQueries == { <<"p","a","r","s","e">>, <<"a","_","b">>, <<"z","z">> }
FunctionNames == { sParse, <<"p","a","r","s","e">>, sLoad, <<"n","o","p","e">> }
FilePaths == { MainPy, UtilsPy, UtilsCap, <<"n","o","p","e",".","p","y">> }

\* whether the paths of a files table are pairwise different
UniquePaths(files) ==
    \A i, j \in 1..Len(files) : files[i].path = files[j].path => i = j

\* the file each row of a table belongs to
FilesOf(rows) == {rows[i].file : i \in 1..Len(rows)}

-----------------------------------------------------------------------------
(* analyzers/git_analyzer.py, as far as the store and the tools consume it *)

\* the repository's history, most recent first
GitLog ==
    << [hash |-> "c2", message |-> "second", author |-> "dev", date |-> 2,
        files_changed |-> <<MainPy>>],
       [hash |-> "c1", message |-> "first", author |-> "dev", date |-> 1,
        files_changed |-> <<>>] >>

\* GitAnalyzer.get_recent_commits(limit) on a repository holding the n oldest commits
GitRecentCommits(n, limit) ==
    LET log == SubSeq(GitLog, Len(GitLog) - n + 1, Len(GitLog))
    IN  IF limit >= Len(log) THEN log ELSE SubSeq(log, 1, limit)

-----------------------------------------------------------------------------
(* The serving side: tools/registry.py on storage/db.py. Every query method
   opens a connection of its own and runs its SELECTs one by one in autocommit
   mode, so each SELECT reads the tables committed at that moment. reader.first,
   reader.mixed, reply.first, reply.last and reply.mixed are history: the tables
   the first and the last SELECT of the call read, and whether they differ. *)

SearchArgs == SearchQueries \cup {<<>>}
NameArgs == FunctionNames \cup {<<>>}
PathArgs == FilePaths \cup {<<>>}
Limits == {1, 10}

QueryOps ==
    {"get_project_overview", "search_codebase", "get_function_context",
     "find_related_files", "explain_recent_changes", "get_recent_commits"}

\* mutant: a query method that clears the markers it has counted
QueriedClearingTodos == [db EXCEPT !.todos = <<>>]

\* the committed tables after a query method's connection is closed: its
\* with block commits, and no statement of it wrote
Queried == db

\* a call in progress after its first SELECT
Reading(op, arg, pc, acc) ==
    [op |-> op, arg |-> arg, pc |-> pc, acc |-> acc, first |-> Facts(db), mixed |-> FALSE]

\* the reply of a call that ran a single SELECT, or none
Answer(op, arg, value) ==
    [op |-> op, arg |-> arg, value |-> value, parts |-> <<>>,
     first |-> Facts(db), last |-> Facts(db), mixed |-> FALSE]

\* the reply of a call that ends with its SELECT on the current tables
Finish(value, parts) ==
    [op |-> reader.op, arg |-> reader.arg, value |-> value, parts |-> parts,
     first |-> reader.first, last |-> Facts(db),
     mixed |-> reader.mixed \/ Facts(db) # reader.first]

Idle == reader.op = "none"

\* a call returns its result to the client
Returns(op, r) ==
    /\ reply' = r
    /\ reader' = NoReader
    /\ lastOp' = op
    /\ db' = Queried
    /\ UNCHANGED <<analyzer, runs, txn, saved, loop>>

\* a call goes on to its next SELECT; the reply of the call before it is gone
Continues(op, rd) ==
    /\ reader' = rd
    /\ reply' = NoReply
    /\ lastOp' = op
    /\ db' = Queried
    /\ UNCHANGED <<analyzer, runs, txn, saved, loop>>

\* call_tool("get_project_overview"): get_project_overview's first SELECT
OverviewFiles ==
    /\ Idle
    /\ Continues("get_project_overview",
           Reading("get_project_overview", <<>>, "functions",
                   [files |-> SelectFileStats(db)]))

\* get_project_overview's second SELECT
OverviewFunctions ==
    /\ reader.op = "get_project_overview"
    /\ reader.pc = "functions"
    /\ Continues("get_project_overview",
           [reader EXCEPT !.pc = "todos",
                          !.acc = [files |-> reader.acc.files,
                                   functions |-> SelectFunctionCount(db)],
                          !.mixed = @ \/ Facts(db) # reader.first])

\* get_project_overview's third SELECT, and _get_project_overview's result
OverviewTodos ==
    /\ reader.op = "get_project_overview"
    /\ reader.pc = "todos"
    /\ LET overview == OverviewDict(reader.acc.files, reader.acc.functions,
                                    SelectTodoStats(db))
       IN  Returns("get_project_overview",
               Finish([overview |-> overview,
                       description |-> <<overview.file_count, overview.total_lines,
                                         overview.function_count>>],
                      <<>>))

\* call_tool("search_codebase"): ToolRegistry._search_codebase
SearchCodebase(query) ==
    /\ Idle
    /\ Returns("search_codebase",
           Answer("search_codebase", query,
               IF query = <<>>
               THEN [results |-> <<>>, message |-> "No search query provided"]
               ELSE [results |-> SearchFunctions(db, query),
                     count |-> Len(SearchFunctions(db, query)),
                     query |-> query]))

\* call_tool("get_function_context"): ToolRegistry._get_function_context up
\* to the return of db.get_function_context
FunctionContext(func_name) ==
    /\ Idle
    /\ IF func_name = <<>>
       THEN Returns("get_function_context",
                Answer("get_function_context", func_name,
                       [error |-> "Function name required"]))
       ELSE LET context == GetFunctionContext(db, func_name)
            IN  IF context = <<>>
                THEN Returns("get_function_context",
                         Answer("get_function_context", func_name,
                                [error |-> "Function not found"]))
                ELSE Continues("get_function_context",
                         Reading("get_function_context", func_name, "importers",
                                 [function |-> context[1], file |-> context[1].file]))

\* call_tool("find_related_files"): ToolRegistry._find_related_files up to
\* find_related_files's first SELECT
FindRelated(file_path) ==
    /\ Idle
    /\ IF file_path = <<>>
       THEN Returns("find_related_files",
                Answer("find_related_files", file_path, [error |-> "File path required"]))
       ELSE Continues("find_related_files",
                Reading("find_related_files", file_path, "imported",
                        [file |-> file_path,
                         related |-> SelectImporters(db, file_path)]))

\* find_related_files's first SELECT inside _get_function_context
ContextImporters ==
    /\ reader.op = "get_function_context"
    /\ reader.pc = "importers"
    /\ Continues("get_function_context",
           [reader EXCEPT !.pc = "imported",
                          !.acc = [function |-> reader.acc.function,
                                   file |-> reader.acc.file,
                                   related |-> SelectImporters(db, reader.acc.file)],
                          !.mixed = @ \/ Facts(db) # reader.first])

\* find_related_files's second SELECT, its return, and the tool's result
RelatedImported ==
    /\ reader.pc = "imported"
    /\ LET imported == SelectImported(db, reader.acc.file)
           related == RelatedList(reader.acc.related, imported)
           parts == [importers |-> reader.acc.related, imported |-> imported]
       IN  IF reader.op = "find_related_files"
           THEN Returns("find_related_files",
                    Finish([file_path |-> reader.arg, related_files |-> related,
                            count |-> Len(related)], parts))
           ELSE Returns("get_function_context",
                    Finish([function |-> reader.acc.function,
                            related_files |-> related], parts))

\* call_tool("explain_recent_changes") without a file_path: the git analyzer answers
ExplainRecentChanges(limit) ==
    /\ Idle
    /\ Returns("explain_recent_changes",
           Answer("explain_recent_changes", limit,
               [commits |-> GitRecentCommits(Len(GitLog), limit),
                summary |-> Len(GitRecentCommits(Len(GitLog), limit))]))

\* db.get_recent_commits(limit)
RecentCommits(limit) ==
    /\ Idle
    /\ Returns("get_recent_commits",
           Answer("get_recent_commits", limit, GetRecentCommits(db.commits, limit)))

\* db.save_git_data(git_analyzer.get_recent_commits(50)) in a repository of n commits
SaveGitData(n) ==
    /\ ~txn.active
    /\ db' = [db EXCEPT !.commits = SaveGit(@, GitRecentCommits(n, 50))]
    /\ lastOp' = "save_git_data"
    /\ UNCHANGED <<analyzer, runs, txn, saved, reader, reply, loop>>

\* a store some server left behind, and a server that has indexed and is about
\* to save while clients query
StoreInit ==
    /\ \E t \in TreeIds :
          /\ analyzer = IndexProject(NewAnalyzer, Trees[t])
          /\ runs = <<[tree |-> t, save |-> "none"]>>
    /\ db \in {EmptyDb} \cup
              {Snapshot(GetData(IndexProject(NewAnalyzer, Trees[t]))) @@ [commits |-> <<>>] :
                  t \in {1, Len(Trees)}}
    /\ txn = NoTxn
    /\ saved = NoSave
    /\ reader = NoReader
    /\ reply = NoReply
    /\ lastOp = "init"
    /\ loop = "reading"

StoreNext ==
    \/ SaveBegin
    \/ SaveStep
    \/ SaveFail
    \/ SaveCommit
    \/ \E n \in 1..Len(GitLog) : SaveGitData(n)
    \/ OverviewFiles
    \/ OverviewFunctions
    \/ OverviewTodos
    \/ \E query \in SearchArgs : SearchCodebase(query)
    \/ \E func_name \in NameArgs : FunctionContext(func_name)
    \/ \E file_path \in PathArgs : FindRelated(file_path)
    \/ ContextImporters
    \/ RelatedImported
    \/ \E limit \in Limits : ExplainRecentChanges(limit)
    \/ \E limit \in Limits : RecentCommits(limit)

StoreSpec == StoreInit /\ [][StoreNext]_vars

-----------------------------------------------------------------------------
(* server.py: the request dispatcher. A request is any value json.loads can
   return. JSON values are records tagged with their kind; an object carries
   the function from its keys to their values; `Missing` stands for a key the
   object does not have. The text of a string that is searched for or bound
   to a statement is a sequence of characters, as everywhere above; a method
   or a tool name, which is only compared with literals, is a string. A call ends with a value or with an exception:
   [raised |-> FALSE, value |-> v] or [raised |-> TRUE, exception |-> e]. *)

Missing == [kind |-> "missing"]
JNull == [kind |-> "null"]
JStr(s) == [kind |-> "string", s |-> s]
JNum(n) == [kind |-> "number", n |-> n]
JArr == [kind |-> "array", items |-> <<>>]
JObj(fields) == [kind |-> "object", fields |-> fields]

\* one key of an object literal, left out when the value is Missing
Opt(key, v) == IF v = Missing THEN <<>> ELSE (key :> v)

Value(v) == [raised |-> FALSE, value |-> v]
Raise(e) == [raised |-> TRUE, exception |-> e]

\* whether v has a .get: only a dict has
HasGet(v) == v.kind = "object"

\* dict.get(key, default)
Get(d, key, default) == IF key \in DOMAIN d.fields THEN d.fields[key] ELSE default

\* v == "s" for a string literal s
IsStr(v, s) == v.kind = "string" /\ v.s = s

\* Python truth of a JSON value
Truthy(v) ==
    CASE v.kind = "null" -> FALSE
      [] v.kind = "string" -> v.s # <<>>
      [] v.kind = "number" -> v.n # 0
      [] v.kind = "array" -> v.items # <<>>
      [] OTHER -> DOMAIN v.fields # {}

\* ToolRegistry.list_tools: the names of the tools it describes
ToolNames ==
    <<"get_project_overview", "search_codebase", "get_function_context",
      "explain_recent_changes", "find_related_files">>

\* GitAnalyzer.get_file_history(file_path, limit): the commits that touch the path
GitFileHistory(file_path, limit) ==
    LET touching == SelectSeq(GitLog,
                        LAMBDA c : \E i \in 1..Len(c.files_changed) :
                                       c.files_changed[i] = file_path)
        kept == IF limit >= Len(touching) THEN touching ELSE SubSeq(touching, 1, limit)
    IN  [i \in 1..Len(kept) |->
            [hash |-> kept[i].hash, message |-> kept[i].message,
             author |-> kept[i].author, date |-> kept[i].date]]

\* GitAnalyzer.explain_changes(file_path): the summary text as its parts
GitExplainChanges(file_path) ==
    LET history == GitFileHistory(file_path, 10)
    IN  IF history = <<>>
        THEN [text |-> "No git history found", lines |-> <<>>]
        ELSE [text |-> "Recent changes",
              lines |-> [i \in 1..Len(history) |-> <<history[i].date, history[i].message>>]]

\* ToolRegistry._get_project_overview on tables t
ToolGetProjectOverview(t) ==
    LET overview == GetProjectOverview(t)
    IN  Value([overview |-> overview,
               description |-> <<overview.file_count, overview.total_lines,
                                 overview.function_count>>])

\* f"{v}" of a string or of a number of one digit
Format(v) == IF v.kind = "string" THEN v.s ELSE <<ToString(v.n)>>

\* ToolRegistry._search_codebase: the query, a string or a number, is
\* formatted into the LIKE pattern
ToolSearchCodebase(t, query) ==
    IF ~Truthy(query)
    THEN Value([results |-> <<>>, message |-> "No search query provided"])
    ELSE Value([results |-> SearchFunctions(t, Format(query)),
                count |-> Len(SearchFunctions(t, Format(query))),
                query |-> query])

\* ToolRegistry._get_function_context: sqlite3 cannot bind a list or a dict,
\* and a number bound to `name = ?` is compared as its text
ToolGetFunctionContext(t, func_name) ==
    IF ~Truthy(func_name) THEN Value([error |-> "Function name required"])
    ELSE IF func_name.kind \in {"array", "object"} THEN Raise("ProgrammingError")
    ELSE LET context == GetFunctionContext(t, Format(func_name))
         IN  IF context = <<>> THEN Value([error |-> "Function not found"])
             ELSE Value([function |-> context[1],
                         related_files |-> FindRelatedFiles(t, context[1].file)])

\* ToolRegistry._find_related_files: Path(file_path) takes a str only
ToolFindRelatedFiles(t, file_path) ==
    IF ~Truthy(file_path) THEN Value([error |-> "File path required"])
    ELSE IF file_path.kind # "string" THEN Raise("TypeError")
    ELSE Value([file_path |-> file_path.s,
                related_files |-> FindRelatedFiles(t, file_path.s),
                count |-> Len(FindRelatedFiles(t, file_path.s))])

\* ToolRegistry._explain_recent_changes in a repository holding GitLog: the
\* slice [:limit] takes an int or None; get_file_history swallows what
\* iter_commits raises on a path that is no string
ToolExplainRecentChanges(file_path, limit) ==
    IF limit.kind \notin {"number", "null"} THEN Raise("TypeError")
    ELSE LET n == IF limit.kind = "null" THEN Len(GitLog) ELSE limit.n
             commits == GitRecentCommits(Len(GitLog), n)
         IN  IF Truthy(file_path) /\ file_path.kind = "string"
             THEN Value([commits |-> commits,
                         file_history |-> GitFileHistory(file_path.s, n),
                         file_explanation |-> GitExplainChanges(file_path.s)])
             ELSE IF Truthy(file_path)
             THEN Value([commits |-> commits,
                         file_history |-> <<>>,
                         file_explanation |-> [text |-> "No git history found",
                                               lines |-> <<>>]])
             ELSE Value([commits |-> commits, summary |-> Len(commits)])

\* ToolRegistry.call_tool on tables t
CallTool(t, name, args) ==
    IF IsStr(name, "get_project_overview") THEN ToolGetProjectOverview(t)
    ELSE IF IsStr(name, "search_codebase")
    THEN IF ~HasGet(args) THEN Raise("AttributeError")
         ELSE ToolSearchCodebase(t, Get(args, "query", JStr(<<>>)))
    ELSE IF IsStr(name, "get_function_context")
    THEN IF ~HasGet(args) THEN Raise("AttributeError")
         ELSE ToolGetFunctionContext(t, Get(args, "function_name", JStr(<<>>)))
    ELSE IF IsStr(name, "explain_recent_changes")
    THEN IF ~HasGet(args) THEN Raise("AttributeError")
         ELSE ToolExplainRecentChanges(Get(args, "file_path", JNull),
                                       Get(args, "limit", JNum(10)))
    ELSE IF IsStr(name, "find_related_files")
    THEN IF ~HasGet(args) THEN Raise("AttributeError")
         ELSE ToolFindRelatedFiles(t, Get(args, "file_path", JStr(<<>>)))
    ELSE Raise("ValueError")

\* the envelopes handle_request builds
ResultEnvelope(id, result) == [jsonrpc |-> "2.0", id |-> id, result |-> result]
ErrorEnvelope(id, code, message) ==
    [jsonrpc |-> "2.0", id |-> id, error |-> [code |-> code, message |-> message]]

\* the try block of handle_request
TryHandle(t, request) ==
    IF ~HasGet(request) THEN Raise("AttributeError")
    ELSE LET method == Get(request, "method", JNull)
             params == Get(request, "params", JObj(<<>>))
             id == Get(request, "id", JNull)
         IN  IF IsStr(method, "initialize")
             THEN Value(ResultEnvelope(id,
                      [protocolVersion |-> "2024-11-05",
                       capabilities |-> [tools |-> <<>>],
                       serverInfo |-> [name |-> "devmind-mcp", version |-> "0.1.0"]]))
             ELSE IF IsStr(method, "tools/list")
             THEN Value(ResultEnvelope(id, [tools |-> ToolNames]))
             ELSE IF IsStr(method, "tools/call")
             THEN IF ~HasGet(params) THEN Raise("AttributeError")
                  ELSE LET result == CallTool(t, Get(params, "name", JNull),
                                              Get(params, "arguments", JObj(<<>>)))
                       IN  IF result.raised THEN result
                           ELSE Value(ResultEnvelope(id, result.value))
             ELSE Value(ErrorEnvelope(id, -32601, "Method not found"))

\* the except clause of handle_request: it calls request.get("id") again
ExceptHandler(request, exception) ==
    IF ~HasGet(request) THEN Raise("AttributeError")
    ELSE Value(ErrorEnvelope(Get(request, "id", JNull), -32000, exception))

\* DevMindMCPServer.handle_request on tables t
HandleRequest(t, request) ==
    LET tried == TryHandle(t, request)
    IN  IF tried.raised THEN ExceptHandler(request, tried.exception) ELSE tried

\* the requests the serving loop is fed
RequestIds == {Missing, JNum(1)}

SearchArguments ==
    {JObj(Opt("query", q)) :
        q \in {Missing, JNull, JStr(<<"p","a","r","s","e">>), JNum(5)}}

ContextArguments ==
    {JObj(Opt("function_name", n)) :
        n \in {Missing, JStr(sLoad), JStr(<<"n","o","p","e">>), JArr,
               JObj("a" :> JNull), JNum(5)}}

RelatedArguments ==
    {JObj(Opt("file_path", f)) : f \in {Missing, JStr(MainPy), JObj("a" :> JNull)}}

ExplainArguments ==
    {JObj(Opt("file_path", f) @@ Opt("limit", l)) :
        f \in {Missing, JStr(MainPy)},
        l \in {Missing, JNull, JNum(1), JStr(<<"x">>)}}

ToolArguments(name) ==
    {Missing, JNull, JArr} \cup
    ( CASE name = "search_codebase" -> SearchArguments
        [] name = "get_function_context" -> ContextArguments
        [] name = "find_related_files" -> RelatedArguments
        [] name = "explain_recent_changes" -> ExplainArguments
        [] OTHER -> {JObj(<<>>)} )

CallParams ==
    {Missing, JNull, JArr}
    \cup {JObj(Opt("name", n)) : n \in {Missing, JNull, JNum(3), JStr("no_such_tool")}}
    \cup UNION { {JObj(Opt("name", JStr(ToolNames[i])) @@ Opt("arguments", a)) :
                     a \in ToolArguments(ToolNames[i])} : i \in 1..Len(ToolNames) }

Requests ==
    {JNull, JStr(<<"x">>), JNum(5), JArr}
    \cup {JObj(Opt("method", m) @@ Opt("params", p) @@ Opt("id", id)) :
             m \in {Missing, JNull, JNum(1), JStr("initialize"), JStr("tools/list"),
                    JStr("no/such/method")},
             p \in {Missing, JNull},
             id \in RequestIds}
    \cup {JObj(Opt("method", JStr("tools/call")) @@ Opt("params", p) @@ Opt("id", id)) :
             p \in CallParams, id \in RequestIds}

\* the state run() has reached when it enters its loop: the tree indexed, the
\* fact set and the commits saved
ServeInit ==
    /\ \E t \in TreeIds :
          /\ analyzer = IndexProject(NewAnalyzer, Trees[t])
          /\ runs = <<[tree |-> t, save |-> "ok"]>>
          /\ db = Snapshot(GetData(IndexProject(NewAnalyzer, Trees[t])))
                     @@ [commits |-> SaveGit(<<>>, GitRecentCommits(Len(GitLog), 50))]
          /\ saved = [outcome |-> "ok",
                      inserted |-> GetData(IndexProject(NewAnalyzer, Trees[t])).files # <<>>,
                      data |-> GetData(IndexProject(NewAnalyzer, Trees[t])),
                      replaced |-> FALSE, prevPaths |-> {}]
    /\ txn = NoTxn
    /\ reader = NoReader
    /\ reply = NoReply
    /\ lastOp = "save_git_data"
    /\ loop = "reading"

\* one turn of run()'s loop on a line that parses: handle_request, then the
\* response is printed; an exception out of handle_request is caught by
\* neither except clause of the loop and ends run()
HandleLine(request) ==
    /\ loop = "reading"
    /\ reply' = [op |-> "handle_request", arg |-> request,
                 value |-> HandleRequest(db, request), parts |-> <<>>,
                 first |-> Facts(db), last |-> Facts(db), mixed |-> FALSE]
    /\ loop' = IF HandleRequest(db, request).raised THEN "raised" ELSE "reading"
    /\ lastOp' = "handle_request"
    /\ db' = Queried
    /\ UNCHANGED <<analyzer, runs, txn, saved, reader>>

\* a line that is no JSON text: json.JSONDecodeError, continue
SkipLine ==
    /\ loop = "reading"
    /\ lastOp' = "json_decode_error"
    /\ UNCHANGED <<analyzer, runs, db, txn, saved, reader, reply, loop>>

\* readline returns '': break
EndOfInput ==
    /\ loop = "reading"
    /\ loop' = "ended"
    /\ lastOp' = "eof"
    /\ UNCHANGED <<analyzer, runs, db, txn, saved, reader, reply>>

ServeNext ==
    \/ \E request \in Requests : HandleLine(request)
    \/ SkipLine
    \/ EndOfInput

ServeSpec == ServeInit /\ [][ServeNext]_vars

-----------------------------------------------------------------------------
(* C1: full replace. Once a save has replaced a snapshot A by a fact set B of
   other files, the four tables hold exactly what saving B into an empty store
   gives, and no table row and no answer of overview, search_functions,
   get_function_context or find_related_files names a file of A. *)
C1_FullReplace ==
    saved.replaced =>
        LET t == Facts(db)
            old == saved.prevPaths
        IN  /\ t = Snapshot(saved.data)
            /\ Paths(t.files) \cap old = {}
            /\ FilesOf(t.functions) \cap old = {}
            /\ FilesOf(t.dependencies) \cap old = {}
            /\ FilesOf(t.todos) \cap old = {}
            /\ GetProjectOverview(t).file_count = Len(saved.data.files)
            /\ GetProjectOverview(t).function_count = Len(saved.data.functions)
            /\ \A q \in SearchQueries : FilesOf(SearchFunctions(t, q)) \cap old = {}
            /\ \A n \in FunctionNames : FilesOf(GetFunctionContext(t, n)) \cap old = {}
            /\ \A f \in FilePaths \cup old :
                  {FindRelatedFiles(t, f)[i] : i \in 1..Len(FindRelatedFiles(t, f))}
                      \cap old = {}

\* a save of functions of other files has replaced a snapshot that held functions
C1_Witness ==
    /\ saved.replaced
    /\ saved.outcome = "ok"
    /\ db.functions # <<>>
    /\ db.dependencies # <<>>
    /\ MainPy \in saved.prevPaths

(* C2: save is all-or-nothing. While a save call runs the committed four
   tables are those from before the call; when it ends they are exactly the
   new fact set's tables if it committed and exactly the tables from before
   the call if it failed, at whatever statement. *)
C2_AllOrNothing ==
    /\ [](txn.active => Facts(db) = txn.before)
    /\ [][(txn.active /\ ~txn'.active) =>
            IF saved'.outcome = "ok"
            THEN Facts(db') = Snapshot(txn.data)
            ELSE Facts(db') = txn.before]_vars

\* a save has failed after its deletes and some inserts, over a snapshot that
\* held rows, and the snapshot is still there
C2_Witness ==
    /\ ~txn.active
    /\ saved.outcome \in {"error", "integrity"}
    /\ saved.inserted
    /\ db.files # <<>>
    /\ db.functions # <<>>

(* C3: idempotence. When one tree was indexed twice and saved after each index
   run, with nothing failing outside the store, both saves succeed and the
   snapshot is the one that indexing the tree once and saving gives. *)
C3_Idempotent ==
    ( /\ Len(runs) = 2
      /\ runs[1].tree = runs[2].tree
      /\ runs[1].save = "ok"
      /\ runs[2].save \in {"ok", "integrity"} )
    => /\ runs[2].save = "ok"
       /\ Facts(db) = Snapshot(GetData(IndexProject(NewAnalyzer, Trees[runs[1].tree])))

(* C5: referential invariant. In every state the paths of the stored file
   rows are pairwise different, and every stored function row and every stored
   dependency row names the path of a stored file row. *)
C5_Referential ==
    /\ UniquePaths(db.files)
    /\ FilesOf(db.functions) \subseteq Paths(db.files)
    /\ FilesOf(db.dependencies) \subseteq Paths(db.files)

\* a run in which one file failed to parse and one failed to read was saved,
\* with functions and dependency rows of the files that did parse
C5_Witness ==
    /\ runs # <<>>
    /\ runs[Len(runs)] = [tree |-> 3, save |-> "ok"]
    /\ Len(db.files) > Cardinality(FilesOf(db.functions))
    /\ db.functions # <<>>
    /\ db.dependencies # <<>>

-----------------------------------------------------------------------------
(* Properties of the serving side, under StoreSpec. *)

\* the elements of a sequence
Range(seq) == {seq[i] : i \in 1..Len(seq)}

(* C4: snapshot isolation of readers. The overview a get_project_overview call
   returns, whatever save ran beside it, is the overview of one single
   snapshot: of the tables committed when the call began or of those committed
   when it ended. *)
C4_OverviewOfOneSnapshot ==
    reply.op = "get_project_overview" =>
        \/ reply.value.overview = GetProjectOverview(reply.first)
        \/ reply.value.overview = GetProjectOverview(reply.last)

(* C6: queries are read-only. A step of a query method or of a tool call
   leaves all five tables unchanged, and a step that changes a table is a step
   of save_project_data or of save_git_data. *)
C6_QueriesReadOnly ==
    [][ /\ (lastOp' \in QueryOps => db' = db)
        /\ (db' # db => lastOp' \in {"save_project_data", "save_git_data"}) ]_vars

\* a query has answered on a store holding facts and commits
C6_Witness ==
    /\ lastOp \in QueryOps
    /\ reply.op = "get_function_context"
    /\ db.functions # <<>>
    /\ db.commits # <<>>

\* the functions whose name or docstring contains the query as a substring,
\* letter case ignored and every character of the query taken literally
LiteralMatches(t, query) ==
    LET rows == SelectSeq(t.functions,
                    LAMBDA r : \/ Contains(Lower(query), Lower(r.name))
                               \/ Contains(Lower(query), Lower(r.docstring)))
    IN  [i \in 1..Len(rows) |->
            [name |-> rows[i].name, file |-> rows[i].file,
             line |-> rows[i].line_start, docstring |-> rows[i].docstring]]

(* C7: search is a literal case-insensitive substring match. What
   search_codebase returns for a non-empty query is exactly the stored
   functions whose name or docstring contains the query, no more, no fewer. *)
C7_SearchIsLiteral ==
    (reply.op = "search_codebase" /\ reply.arg # <<>>) =>
        reply.value.results = LiteralMatches(reply.first, reply.arg)

(* C8: function lookup is exact and never stale. get_function_context(n)
   answers with an error field exactly when no function of the tables it read
   is named n, letter case included; otherwise it answers with a function of
   those tables named n and, the tables not having changed during the call,
   with find_related_files of that function's file. *)
C8_LookupExact ==
    reply.op = "get_function_context" =>
        LET t == reply.first
            n == reply.arg
            named == {i \in 1..Len(t.functions) : t.functions[i].name = n}
        IN  /\ (GetFunctionContext(t, n) = <<>>) <=> (named = {})
            /\ ("error" \in DOMAIN reply.value) <=> (named = {})
            /\ named # {} =>
                  /\ reply.value.function.name = n
                  /\ \E i \in named :
                        /\ t.functions[i].file = reply.value.function.file
                        /\ t.functions[i].line_start = reply.value.function.line_start
                        /\ t.functions[i].docstring = reply.value.function.docstring
                  /\ ~reply.mixed =>
                        reply.value.related_files
                            = FindRelatedFiles(t, reply.value.function.file)

\* a lookup has found one of two functions of the same name and has added the
\* related files of its file; the same store holds a name that differs from a
\* known argument by letter case only
C8_Witness ==
    /\ reply.op = "get_function_context"
    /\ reply.arg = sLoad
    /\ "function" \in DOMAIN reply.value
    /\ reply.value.related_files # <<>>
    /\ Cardinality({i \in 1..Len(db.functions) : db.functions[i].name = sLoad}) = 2
    /\ \E i \in 1..Len(db.functions) : db.functions[i].name = sParse

\* a lookup by a name that differs from a stored name by letter case only has
\* answered not found
C8_WitnessNotFound ==
    /\ reply.op = "get_function_context"
    /\ reply.arg = <<"p","a","r","s","e">>
    /\ "error" \in DOMAIN reply.value
    /\ \E i \in 1..Len(reply.first.functions) : reply.first.functions[i].name = sParse

(* C9: imports direction. What find_related_files(f) returns contains every
   stored path whose file name contains a dependency name of f's own edges,
   and its imports part holds paths of stored files only. *)
C9_ImportsDirection ==
    (reply.op = "find_related_files" /\ ~reply.mixed /\ "related_files" \in DOMAIN reply.value) =>
        LET t == reply.first
            own == SelectImported(t, reply.arg)
        IN  /\ \A p \in Paths(t.files) :
                  (\E d \in own : Contains(d, PathName(p)))
                      => p \in Range(reply.value.related_files)
            /\ reply.parts.imported \subseteq Paths(t.files)

(* C10: importers direction. The importers part of find_related_files(f) is
   exactly the stored paths p with an edge (p, d) such that d contains the stem
   of f or the stem contains d, letter case respected; and the returned list
   has no duplicates. *)
C10_ImportersDirection ==
    (reply.op = "find_related_files" /\ ~reply.mixed /\ "related_files" \in DOMAIN reply.value) =>
        LET t == reply.first
            stem == PathStem(reply.arg)
            list == reply.value.related_files
        IN  /\ reply.parts.importers =
                  {p \in Paths(t.files) :
                      \E j \in 1..Len(t.dependencies) :
                          /\ t.dependencies[j].file = p
                          /\ \/ Contains(stem, t.dependencies[j].dependency)
                             \/ Contains(t.dependencies[j].dependency, stem)}
            /\ \A i, j \in 1..Len(list) : list[i] = list[j] => i = j

-----------------------------------------------------------------------------
(* C11: overview aggregates. When the tables did not change during a
   get_project_overview call, the overview it returns has file_count = the
   number of file rows, total_size and total_lines = the sums of their size
   and lines, function_count = the number of function rows, and todos = the
   map from each marker kind present to the number of its rows; on empty
   tables, never saved to or saved an empty fact set, the four counts are 0
   and the map is empty; and the answer is a result, never an error. *)
C11_OverviewAggregates ==
    (reply.op = "get_project_overview" /\ ~reply.mixed) =>
        LET t == reply.first
            o == reply.value.overview
            kinds == {t.todos[i].type : i \in 1..Len(t.todos)}
        IN  /\ DOMAIN reply.value = {"overview", "description"}
            /\ o.file_count = Len(t.files)
            /\ o.total_size = SumOf([i \in 1..Len(t.files) |-> t.files[i].size])
            /\ o.total_lines = SumOf([i \in 1..Len(t.files) |-> t.files[i].lines])
            /\ o.function_count = Len(t.functions)
            /\ DOMAIN o.todos = kinds
            /\ \A k \in kinds :
                  o.todos[k] = Cardinality({i \in 1..Len(t.todos) : t.todos[i].type = k})
            /\ (t.files = <<>> /\ t.functions = <<>> /\ t.todos = <<>>) =>
                  /\ o.file_count = 0 /\ o.total_size = 0 /\ o.total_lines = 0
                  /\ o.function_count = 0
                  /\ DOMAIN o.todos = {}

\* an overview of a snapshot of three files with markers of two kinds, one of
\* them counted twice
C11_Witness ==
    /\ reply.op = "get_project_overview"
    /\ ~reply.mixed
    /\ reply.value.overview.file_count = 3
    /\ reply.value.overview.total_size = 60
    /\ reply.value.overview.total_lines = 12
    /\ reply.value.overview.function_count = 4
    /\ DOMAIN reply.value.overview.todos = {"TODO", "FIXME"}
    /\ reply.value.overview.todos["TODO"] = 2

\* an overview of a store nothing was ever saved to
C11_WitnessNeverSaved ==
    /\ reply.op = "get_project_overview"
    /\ saved.outcome = "none"
    /\ ~txn.active
    /\ db = EmptyDb
    /\ reply.value.overview.file_count = 0

\* an overview of a store whose snapshot was replaced by an empty fact set
C11_WitnessSavedEmpty ==
    /\ reply.op = "get_project_overview"
    /\ ~reply.mixed
    /\ saved.outcome = "ok"
    /\ saved.data.files = <<>>
    /\ saved.prevPaths # {}
    /\ reply.first.files = <<>>
    /\ reply.value.overview.function_count = 0

-----------------------------------------------------------------------------
(* C12: the dispatcher never raises. Whatever value json.loads gave for a
   request, handle_request returns an envelope carrying exactly one of result
   and error; a method other than initialize, tools/list and tools/call, and a
   tool name other than the five tools, each give an error envelope; and the
   serving loop is still reading after it. *)
C12_DispatcherNeverRaises ==
    /\ loop # "raised"
    /\ reply.op = "handle_request" =>
          /\ ~reply.value.raised
          /\ \/ DOMAIN reply.value.value = {"jsonrpc", "id", "result"}
             \/ DOMAIN reply.value.value = {"jsonrpc", "id", "error"}
          /\ LET request == reply.arg
                 method == Get(request, "method", JNull)
                 params == Get(request, "params", JObj(<<>>))
             IN  /\ HasGet(request)
                 /\ ( \/ method.kind # "string"
                      \/ method.s \notin {"initialize", "tools/list", "tools/call"} )
                       => "error" \in DOMAIN reply.value.value
                 /\ ( /\ IsStr(method, "tools/call")
                      /\ HasGet(params)
                      /\ \A i \in 1..Len(ToolNames) :
                            ~IsStr(Get(params, "name", JNull), ToolNames[i]) )
                       => "error" \in DOMAIN reply.value.value

-----------------------------------------------------------------------------
(* Properties of the indexer, under Spec. *)

\* the components of a path: the parts between its slashes
RECURSIVE Components(_)
Components(p) ==
    IF \A i \in 1..Len(p) : p[i] # "/" THEN {p}
    ELSE LET k == CHOOSE i \in 1..Len(p) : p[i] = "/" /\ \A j \in 1..(i - 1) : p[j] # "/"
         IN  {SubSeq(p, 1, k - 1)} \cup Components(SubSeq(p, k + 1, Len(p)))

\* the files a fact set has any fact of
FactFiles(data) ==
    Paths(data.files) \cup FilesOf(data.functions)
        \cup FilesOf(data.dependencies) \cup FilesOf(data.todos)

\* the tree of the analyzer's last index run
LastTree == Trees[runs[Len(runs)].tree]

(* C13: filtering is by path component. After the first index run of an
   analyzer, a readable and parsable file of the tree has a file record
   exactly when no component of its path is one of the ignore-list names, and
   no fact names a path with such a component. *)
C13_FilterByComponent ==
    Len(runs) = 1 =>
        /\ \A p \in DOMAIN LastTree :
              LastTree[p] = "ok" =>
                 ( p \in Paths(analyzer.files)
                     <=> Components(p) \cap IgnorePatterns = {} )
        /\ \A p \in FactFiles(GetData(analyzer)) :
              Components(p) \cap IgnorePatterns = {}

(* C14: a per-file failure is local. After the first index run of an
   analyzer, the fact set is the one the same tree without its unreadable and
   unparsable files gives, and it holds no file record, function, dependency
   edge or marker of such a file. *)
C14_FailureIsLocal ==
    Len(runs) = 1 =>
        LET bad == {p \in DOMAIN LastTree : LastTree[p] \in {"unreadable", "unparsable"}}
            without == [p \in DOMAIN LastTree |->
                           IF p \in bad THEN "absent" ELSE LastTree[p]]
        IN  /\ GetData(analyzer) = GetData(IndexProject(NewAnalyzer, without))
            /\ FactFiles(GetData(analyzer)) \cap bad = {}

(* C15: the indexer keeps no state across calls. After any sequence of index
   runs on one analyzer, get_data returns the fact set of the tree of the last
   run only, with no path recorded twice, and a save of it does not violate
   the uniqueness of file paths. *)
C15_NoStateAcrossCalls ==
    runs # <<>> =>
        /\ GetData(analyzer) = GetData(IndexProject(NewAnalyzer, LastTree))
        /\ UniquePaths(analyzer.files)
        /\ runs[Len(runs)].save # "integrity"

====
